---- MODULE Spec2Model ----
(***************************************************************************)
(* A model of the AWL protocol client of waterfurnace-py (src/awl.py):     *)
(* the transaction table, the command send path, the receive loop, the     *)
(* per-transaction timeout and the session task with its renewal cycle.    *)
(*                                                                         *)
(* The client runs on one asyncio event loop.  A step of the model is the  *)
(* code one task runs between two suspension points.  The transaction      *)
(* lock is never held across an await, so acquiring it never suspends:     *)
(* allocating an identifier, registering its future and writing the frame  *)
(* to the transport happen in one step of the sending task.                *)
(***************************************************************************)
EXTENDS Integers, Sequences, FiniteSets, TLC

\* Bounds of the model.
\* TidModulus stands for the 256 of awl.py:112, scaled down so that a full
\* table and the wrap of the cursor are reached; every formula is stated in
\* terms of it.
TidModulus == 3
\* Callers that may be inside _command_wait() at once.
MaxTxn == 3
\* Largest iz2_max_zones a login payload names.
MaxZones == 2
\* Most gateways, and most locations, a login payload holds.
MaxGateways == 2
\* timed_cache: the window in units of the clock, the end of the clock, and
\* the number of coroutines of the wrapped function in flight.
UpdateDelta == 2
MaxTime == 5
MaxCoros == 2
\* Largest retry budget, AWL_CONNECT_TIMEOUT or AWL_LOGIN_TIMEOUT, in units
\* of the clock.
MaxBudget == 2

Ids == 1..(TidModulus - 1)
\* Slot 0 is the session task's own (its login command); callers take 1..MaxTxn.
HandlerSlot == 0
Slots == 0..MaxTxn
CallerSlots == 1..MaxTxn

\* Entries of the _transactions dict: no key, or a future.  A future is
\* named by the slot of the caller awaiting it.  When a future is resolved
\* its waiter hands the outcome to the caller and the slot is free again;
\* Tombstone is such a future that is still a dict entry (a timed out
\* transaction stays in the dict until its identifier is reused, a frame
\* with its identifier arrives or the table is reset).
Absent == -1
Tombstone == -2

\* A frame without a "tid" key.
NoTid == -1

NoExc == [type |-> "", msg |-> ""]
Exc(t, m) == [type |-> t, msg |-> m]

VARIABLES
    transactions,           \* AWL._transactions: identifier -> future
    transaction_id,         \* AWL._transaction_id: the cursor
    login_data,             \* AWL._login_data: <<>> is None, else <<frame>>
    websockets_connection,  \* "none" | "open" | "closed"
    futures,                \* slot -> the pending future its caller awaits
    returned,               \* slot -> what its waiter returned in the last step
    receive_task,           \* the task running __websockets_receive
    pc,                     \* position of the task running __websockets_handler
    task_exc,               \* exception _websockets_task ended with
    raised,                 \* exception the last step's call raised at once
    sent,                   \* frame the last step wrote to the socket
    message,                \* message the last step's receive iteration read
    gateway_rlist,          \* AWL.AWL_GATEWAY_RLIST, the shared list
    websockets_uri,         \* the endpoint connect() hands the session task
    socket_uri,             \* the endpoint the current socket was opened to
    timeout_task,           \* the renewal timer: "none" | "pending" | "done"
    session_id,             \* AWL.session_id: "unset" | "none" | "set"
    http_logout,            \* the last step's __http_logout: "none" | "sent" | "skipped"
    read_timeout,           \* the timeout argument of the last step's read()
    late,                   \* identifiers of the requests sent on the current
                            \* socket that timed out before their reply came
    now,                    \* datetime.utcnow(), in units of the clock
    next_update,            \* timed_cache: the shared expiry timestamp
    cache,                  \* timed_cache: __cache, key -> value
    is_async,               \* whether the wrapped function is a coroutine function
    pending,                \* the coroutines of _wrap_coroutine_storage not yet finished
    invocations,            \* key -> calls of the wrapped function since the last
                            \* sweep that have not failed
    cache_step,             \* what the last step did to the cache
    supervisor,             \* waterfurnace.py: where the supervision of the client is
    retry                   \* waterfurnace.py: the retries of establish_awl_session()

awl_vars == <<transactions, transaction_id, login_data, websockets_connection,
              futures, returned, receive_task, pc,
              task_exc, raised, sent, message, gateway_rlist,
              websockets_uri, socket_uri, timeout_task, session_id, http_logout,
              read_timeout, late>>

cache_vars == <<now, next_update, cache, is_async, pending, invocations,
                cache_step>>

sup_vars == <<supervisor, retry>>

vars == <<awl_vars, cache_vars, sup_vars>>

----------------------------------------------------------------------------
\* Login payloads: the "locations" of a login reply, a list of locations,
\* each a list of gateways.  has_max_zones is whether the gateway object has
\* the key iz2_max_zones.
Gateway(g, has, n) == [gwid |-> g, has_max_zones |-> has, iz2_max_zones |-> n]

Gwids == {"GW1", "GW2"}
Gateways ==
    {Gateway(g, TRUE, n) : g \in Gwids, n \in 0..MaxZones}
    \cup {Gateway(g, FALSE, 0) : g \in Gwids}

\* The payload the model's server answers a login with.
ServerPayload == << << Gateway("GW1", TRUE, MaxZones) >> >>

\* Lists of at most n gateways, and payloads of at most len locations
\* holding at most n gateways in all.
GatewayLists(n) == UNION {[1..k -> Gateways] : k \in 0..n}

RECURSIVE PayloadsOf(_, _)
PayloadsOf(len, n) ==
    IF len = 0 THEN {<<>>}
    ELSE UNION {{<<l>> \o p : p \in PayloadsOf(len - 1, n - Len(l))} :
                l \in GatewayLists(n)}

Payloads == UNION {PayloadsOf(len, MaxGateways) : len \in 0..MaxGateways}

NoFrame == [json |-> FALSE, tid |-> NoTid, err |-> "", locations |-> <<>>]

\* No message was read.
NoMessage == [json |-> FALSE, tid |-> NoTid, err |-> "none", locations |-> <<>>]

\* The frames a server may send: not JSON at all, JSON without a tid, and
\* JSON with a tid, with or without a non-empty err.  Identifier 0 is never
\* allocated, so a frame with tid 0 always names an unknown transaction.
DataFrame(tid, err) ==
    [json |-> TRUE, tid |-> tid, err |-> err,
     locations |-> IF err = "" THEN ServerPayload ELSE <<>>]

\* A login reply carrying payload p.
LoginFrame(tid, p) == [json |-> TRUE, tid |-> tid, err |-> "", locations |-> p]

Frames ==
    {NoFrame, DataFrame(NoTid, "")}
    \cup {DataFrame(t, e) : t \in 0..(TidModulus - 1), e \in {"", "denied"}}

FreeSlot ==
    [cmd |-> "", tid |-> 0, fut |-> "free", result |-> NoFrame, exc |-> "",
     timeout |-> 0]

\* awl.py:16
AWL_DEFAULT_TRANSACTION_TIMEOUT == 30

\* The timeout arguments a caller gives read(): none, or a number of
\* seconds.
NoTimeout == -1
ReadTimeouts == {NoTimeout, 5, 60}

\* awl.py:464-465: the timeout parameter of read() as the body sees it: the
\* default stands in when the caller passes none.
TimeoutArgument(t) ==
    IF t = NoTimeout THEN AWL_DEFAULT_TRANSACTION_TIMEOUT ELSE t

\* awl.py:475-480, 408-409, 376-378: the transaction_timeout of the
\* _command() call that read() makes with timeout parameter t: read() hands
\* _command_wait() the device, the zone and the rlist, so _command() takes
\* its own default.
ReadTransactionTimeout(t) == AWL_DEFAULT_TRANSACTION_TIMEOUT

\* A step that is not a call of read().
NoReadCall == read_timeout' = NoTimeout

\* awl.py:268-275, 291-293: a step that opens no socket.  The replies the
\* server still owes to requests that timed out can only come on the
\* socket the requests were sent on: none is left once it is closed.
SameSocket == late' = IF websockets_connection' = "open" THEN late ELSE {}

\* awl.py:270-272: a step that opens a socket, or drops the client: nothing
\* has been sent on the new socket.
NewSocket == late' = {}

\* awl.py:47-82
AWL_GATEWAY_RLIST ==
    << "ActualCompressorSpeed", "AirflowCurrentSpeed", "AOCEnteringWaterTemp",
       "AuroraOutputCC", "AuroraOutputCC2", "AuroraOutputEH1",
       "AuroraOutputEH2", "auroraoutputrv", "auxpower", "AWLABCType",
       "AWLTStatType", "compressorpower", "dehumid_humid_sp",
       "EnteringWaterTemp", "fanpower", "homeautomationalarm1",
       "homeautomationalarm2", "humidity_offset_settings",
       "iz2_dehumid_humid_sp", "iz2_humidity_offset_settings", "lastfault",
       "lastlockout", "LeavingAirTemp", "lockoutstatus", "looppumppower",
       "ModeOfOperation", "totalunitpower", "TStatActiveSetpoint",
       "TStatCoolingSetpoint", "TStatDehumidSetpoint", "TStatHeatingSetpoint",
       "TStatMode", "TStatRelativeHumidity", "TStatRoomTemp" >>

\* An outbound frame: cmd, tid, and for a read the device and the rlist.
NoSent == [cmd |-> "", tid |-> 0, awlid |-> "", rlist |-> <<>>]
CommandFrame(cmd, tid, awlid, rlist) ==
    [cmd |-> cmd, tid |-> tid, awlid |-> awlid, rlist |-> rlist]

----------------------------------------------------------------------------
\* read(): the attribute list.

\* The gateways of a payload in the order awl.py:459-460 visits them.
RECURSIVE AllGateways(_)
AllGateways(locations) ==
    IF locations = <<>> THEN <<>>
    ELSE Head(locations) \o AllGateways(Tail(locations))

\* A value that may be None.
None == [none |-> TRUE, val |-> 0]
Some(v) == [none |-> FALSE, val |-> v]

\* awl.py:455-462: get_gwid_param(gwid, 'iz2_max_zones'): the field of the
\* first gateway with that gwid, None when the payload, the gateway or the
\* field is missing.
GetGwidParam(login, gwid) ==
    IF login = <<>> THEN None
    ELSE LET gws == AllGateways(login[1].locations)
             hits == {i \in 1..Len(gws) : gws[i].gwid = gwid}
         IN  IF hits = {} THEN None
             ELSE LET g == gws[CHOOSE i \in hits : \A j \in hits : i <= j]
                  IN  IF g.has_max_zones THEN Some(g.iz2_max_zones) ELSE None

\* awl.py:472-473: the two names of zone i.
ZoneNames(i) ==
    << "iz2_z" \o ToString(i) \o "_roomtemp",
       "iz2_z" \o ToString(i) \o "_activesettings" >>

\* awl.py:470-474: the names of zones 1..n, in increasing order.
RECURSIVE ZoneList(_)
ZoneList(n) == IF n <= 0 THEN <<>> ELSE ZoneList(n - 1) \o ZoneNames(n)

\* Faulty variant of the list: the shared list itself is extended, without
\* the deep copy.
ReadRlistInPlace(shared, login, awlid) ==
    LET max_zones == GetGwidParam(login, awlid)
        rlist == IF ~max_zones.none /\ max_zones.val # 0
                 THEN shared \o ZoneList(max_zones.val)
                 ELSE shared
    IN  [rlist |-> rlist, shared |-> rlist]

\* awl.py:466-474: the rlist read() builds from a deep copy of the shared
\* list, and the shared list afterwards.
ReadRlist(shared, login, awlid) ==
    LET max_zones == GetGwidParam(login, awlid)
    IN  [rlist |-> IF ~max_zones.none /\ max_zones.val # 0
                   THEN shared \o ZoneList(max_zones.val)
                   ELSE shared,
         shared |-> shared]

----------------------------------------------------------------------------
\* The transaction table.

\* asyncio.Future.done() of a dict entry.
FutureDone(f, e) == e = Tombstone \/ f[e].fut # "pending"

\* awl.py:112: the cursor advances modulo 256, skipping 0.
Advance(cur) == IF (cur + 1) % TidModulus = 0 THEN 1 ELSE (cur + 1) % TidModulus

\* Faulty variant of the test: every identifier is taken as it comes.
EligibleAny(tab, f, tid) == tid \in Ids

\* awl.py:113-116: the identifier is not a key, or its future is done.
Eligible(tab, f, tid) == tab[tid] = Absent \/ FutureDone(f, tab[tid])

\* Faulty variant of the scan: back at the starting point it hands out the
\* identifier it stands on instead of raising.
RECURSIVE ScanEvicts(_, _, _, _)
ScanEvicts(tab, f, cur, initial) ==
    LET n == Advance(cur)
    IN  IF Eligible(tab, f, n) \/ n = initial THEN [ok |-> TRUE, tid |-> n]
        ELSE ScanEvicts(tab, f, n, initial)

\* awl.py:111-124: the scan; ok is FALSE when the capacity error is raised,
\* tid is the cursor the scan leaves behind.
RECURSIVE ScanFrom(_, _, _, _)
ScanFrom(tab, f, cur, initial) ==
    LET n == Advance(cur)
    IN  IF Eligible(tab, f, n) THEN [ok |-> TRUE, tid |-> n]
        ELSE IF n = initial THEN [ok |-> FALSE, tid |-> n]
        ELSE ScanFrom(tab, f, n, initial)

\* Faulty variant of the allocation: the scan always gives up at
\* identifier 1.
NextTransactionIdFromOne(tab, f, cur) ==
    ScanFrom(tab, f, cur, 1)

\* awl.py:106-125
NextTransactionId(tab, f, cur) ==
    ScanFrom(tab, f, cur, IF cur = 0 THEN 1 ELSE cur)

\* Faulty variant of the reset: the entries are dropped, no future is
\* cancelled.
CancelNone(tab, f) == f

\* awl.py:131-134: popitem() every entry and cancel() its future; cancel()
\* changes only a future that is not done.
CancelAll(tab, f) ==
    [s \in Slots |->
        IF f[s].fut = "pending" /\ \E id \in Ids : tab[id] = s
        THEN [f[s] EXCEPT !.fut = "cancelled"]
        ELSE f[s]]

EmptyTable == [id \in Ids |-> Absent]

\* Faulty variant of the reset: the cursor stays where it is.
ResetKeepsCursor(tab, f) ==
    [tab |-> EmptyTable, fut |-> CancelAll(tab, f), cur |-> transaction_id,
     login |-> <<>>]

\* Faulty variant of the reset: the login payload is left as it is.
ResetKeepsLogin(tab, f) ==
    [tab |-> EmptyTable, fut |-> CancelAll(tab, f), cur |-> 0,
     login |-> login_data]

\* awl.py:127-138: the table, the futures, the cursor and the login payload
\* after __reset_transaction_id.
ResetTransactionId(tab, f) ==
    [tab |-> EmptyTable, fut |-> CancelAll(tab, f), cur |-> 0, login |-> <<>>]

\* awl.py:149-155: what the waiter of a done future returns or raises.
WaiterOutcome(t) ==
    CASE t.fut = "result"    -> NoExc
      [] t.fut = "exception" -> Exc("AWLTransactionError", t.exc)
      [] t.fut = "timedout"  -> Exc("AWLTransactionTimeout", "Transaction timed out")
      [] t.fut = "cancelled" -> Exc("AWLTransactionError", "Transaction cancelled")
      [] OTHER               -> NoExc

\* Faulty variant of the commit: the reply completes the live transaction
\* with the lowest identifier, whatever tid it carries.
CommitLowest(tab, f, tid, data) ==
    LET live == {id \in Ids : tab[id] \in Slots /\ f[tab[id]].fut = "pending"}
    IN  IF live = {} THEN [tab |-> tab, fut |-> f, exc |-> NoExc]
        ELSE LET id == CHOOSE i \in live : \A j \in live : i <= j
             IN  [tab |-> [tab EXCEPT ![id] = Absent],
                  fut |-> [f EXCEPT ![tab[id]].fut = "result",
                                    ![tab[id]].result = data],
                  exc |-> NoExc]

\* Faulty variant of the commit: the KeyError of an unknown identifier is
\* not caught.
CommitUncaught(tab, f, tid, data) ==
    IF tid \notin Ids \/ tab[tid] = Absent
    THEN [tab |-> tab, fut |-> f, exc |-> Exc("KeyError", "")]
    ELSE LET e == tab[tid]
         IN  [tab |-> [tab EXCEPT ![tid] = Absent],
              fut |-> IF FutureDone(f, e) THEN f
                      ELSE [f EXCEPT ![e].fut = "result", ![e].result = data],
              exc |-> IF FutureDone(f, e) THEN Exc("InvalidStateError", "")
                      ELSE NoExc]

\* awl.py:159-166: pop(tid) then set_result(data).  A KeyError is caught;
\* set_result on a future that is already done raises InvalidStateError,
\* which is not caught.
CommitTransaction(tab, f, tid, data) ==
    IF tid \notin Ids \/ tab[tid] = Absent
    THEN [tab |-> tab, fut |-> f, exc |-> NoExc]
    ELSE LET e == tab[tid]
         IN  [tab |-> [tab EXCEPT ![tid] = Absent],
              fut |-> IF FutureDone(f, e) THEN f
                      ELSE [f EXCEPT ![e].fut = "result", ![e].result = data],
              exc |-> IF FutureDone(f, e) THEN Exc("InvalidStateError", "")
                      ELSE NoExc]

\* Faulty variant of the abort: the error raised does not carry the text of
\* the frame.
AbortGeneric(tab, f, tid, err) ==
    IF tid \notin Ids \/ tab[tid] = Absent
    THEN [tab |-> tab, fut |-> f, exc |-> NoExc]
    ELSE LET e == tab[tid]
         IN  [tab |-> [tab EXCEPT ![tid] = Absent],
              fut |-> IF FutureDone(f, e) THEN f
                      ELSE [f EXCEPT ![e].fut = "exception",
                                     ![e].exc = "Transaction failed"],
              exc |-> IF FutureDone(f, e) THEN Exc("InvalidStateError", "")
                      ELSE NoExc]

\* awl.py:168-178: pop(tid) then set_exception(AWLTransactionError(err)).
AbortTransaction(tab, f, tid, err) ==
    IF tid \notin Ids \/ tab[tid] = Absent
    THEN [tab |-> tab, fut |-> f, exc |-> NoExc]
    ELSE LET e == tab[tid]
         IN  [tab |-> [tab EXCEPT ![tid] = Absent],
              fut |-> IF FutureDone(f, e) THEN f
                      ELSE [f EXCEPT ![e].fut = "exception", ![e].exc = err],
              exc |-> IF FutureDone(f, e) THEN Exc("InvalidStateError", "")
                      ELSE NoExc]

\* awl.py:379-383: the guard of _command.
NotConnected(cmd, login, ws) ==
    \/ (cmd # "login" /\ login = <<>>)
    \/ ws # "open"

\* Faulty variant of the registration: the future is not made before the
\* frame is sent.
StartTransactionLater(f, s, cmd, tid, timeout) == f

\* awl.py:140-151: register a fresh future under tid for the caller in slot
\* s; its waiter is bounded by timeout.
StartTransaction(f, s, cmd, tid, timeout) ==
    [f EXCEPT ![s] = [cmd |-> cmd, tid |-> tid, fut |-> "pending",
                      timeout |-> timeout,
                      result |-> NoFrame, exc |-> ""]]

\* The slot a new caller takes: the lowest free one.
FreeSlots == {s \in CallerSlots : futures[s].fut = "free"}
NewSlot == CHOOSE s \in FreeSlots : \A r \in FreeSlots : s <= r

\* What a waiter hands the caller awaiting it: the identifier of the
\* transaction, the exception raised (NoExc when it returns a result) and
\* the result.
NoOutcome == [tid |-> 0, exc |-> NoExc, result |-> NoFrame]
Outcome(t) ==
    [tid |-> t.tid, exc |-> WaiterOutcome(t),
     result |-> IF t.fut = "result" THEN t.result ELSE NoFrame]

NothingReturned == [s \in CallerSlots |-> NoOutcome]

\* The callers whose future f resolves.
Resolved(f) == {s \in CallerSlots : f[s].fut \notin {"free", "pending"}}

\* awl.py:408-416: the waiters of the resolved futures return: each caller
\* is handed its outcome and is gone; a future that is still a dict entry
\* stays there, done.
Settle(tab, f) ==
    [tab |-> [id \in Ids |-> IF tab[id] \in Resolved(f) THEN Tombstone
                             ELSE tab[id]],
     fut |-> [s \in Slots |-> IF s \in Resolved(f) THEN FreeSlot ELSE f[s]],
     ret |-> [s \in CallerSlots |-> IF s \in Resolved(f) THEN Outcome(f[s])
                                    ELSE NoOutcome]]

\* awl.py:258-266: the endpoint found in the configuration script; NoUri
\* before that.
NoUri == ""
ServerUri == "wss://awl"

\* Faulty variant of the renewal: the endpoint is looked up again, and is
\* another by then.
RenewUriRefetched(uri) == "wss://awl2"

\* awl.py:334-336, 305: the renewal connects to the endpoint the session
\* task was started with.
RenewUri(uri) == uri

----------------------------------------------------------------------------
\* waterfurnace.py:81-94: the two retry decorators of
\* establish_awl_session().  The outer one retries AWLConnectionError within
\* AWL_CONNECT_TIMEOUT, the inner one AWLLoginError within
\* AWL_LOGIN_TIMEOUT.  Each is a loop that notes the time it was entered,
\* measures the time elapsed since then at the start of every attempt, and
\* when an attempt raises its exception either gives up (a budget is set
\* and the elapsed time has reached it), raising the exception, or sleeps
\* and tries again.  An attempt of the outer loop is a call of the inner
\* one, which is entered anew each time.

\* A budget that is not set (max_time is None).
NoBudget == -1
Budgets == {NoBudget} \cup (0 .. MaxBudget)

\* The retry loops before establish_awl_session() is called.
NewRetry(ct, lt) ==
    [connect_timeout |-> ct, login_timeout |-> lt, state |-> "idle",
     outer_start |-> 0, outer_elapsed |-> 0, inner_start |-> 0,
     wait_until |-> NoBudget, connect_waited |-> 0, login_waited |-> 0]

\* The loops at the start of an attempt made at time t: the first attempt
\* enters both loops, an attempt after a connection failure is an attempt
\* of the outer loop and enters the inner loop anew, an attempt after a
\* login failure is an attempt of the inner loop.
Attempt(r, t) ==
    CASE r.state = "idle" ->
            [r EXCEPT !.outer_start = t, !.outer_elapsed = 0,
                      !.inner_start = t, !.wait_until = NoBudget]
      [] r.state = "waiting_connect" ->
            [r EXCEPT !.outer_elapsed = t - r.outer_start,
                      !.inner_start = t, !.wait_until = NoBudget]
      [] OTHER -> [r EXCEPT !.wait_until = NoBudget]

\* Whether the time elapsed has used up the budget.
Exceeded(budget, elapsed) == budget # NoBudget /\ elapsed >= budget

\* The end of a sleep that starts at t: no longer than what remained of the
\* budget at the start of the attempt.
WaitUntil(budget, elapsed, t) ==
    IF budget = NoBudget THEN NoBudget ELSE t + (budget - elapsed)

\* The loops after the attempt made at time t raised e, or returned.
Backoff(r, t, e) ==
    LET a == Attempt(r, t)
    IN
    CASE e = NoExc -> [a EXCEPT !.state = "done"]
      [] e.type = "AWLLoginError" ->
            IF Exceeded(a.login_timeout, t - a.inner_start)
            THEN [a EXCEPT !.state = "gave_up_login"]
            ELSE [a EXCEPT !.state = "waiting_login",
                           !.wait_until = WaitUntil(a.login_timeout,
                                                    t - a.inner_start, t)]
      [] e.type = "AWLConnectionError" ->
            IF Exceeded(a.connect_timeout, a.outer_elapsed)
            THEN [a EXCEPT !.state = "gave_up_connect"]
            ELSE [a EXCEPT !.state = "waiting_connect",
                           !.wait_until = WaitUntil(a.connect_timeout,
                                                    a.outer_elapsed, t)]
      [] OTHER -> [a EXCEPT !.state = "raised"]

\* A unit of time spent asleep between two attempts.
Waited(r) ==
    CASE r.state = "waiting_connect" -> [r EXCEPT !.connect_waited = @ + 1]
      [] r.state = "waiting_login"   -> [r EXCEPT !.login_waited = @ + 1]
      [] OTHER -> r

----------------------------------------------------------------------------
\* timed_cache.py: the cache around a wrapped function f.

Args == {"GW1", "GW2"}
Values == {"v1", "v2"}
Missing == "missing"
Failed == "failed"
Coros == 1 .. MaxCoros

\* timed_cache.py:48: the key is the module, the name and the repr of the
\* arguments of the call.
Key(a) == <<"waterfurnace", "awl_read_gateway", a>>
Keys == {Key(a) : a \in Args}

\* timed_cache.py:32: the empty dict.
EmptyCache == [k \in Keys |-> Missing]

NoCoro == [key |-> <<>>, fresh |-> FALSE]
NoStep == [op |-> "none", key |-> <<>>, swept |-> FALSE, cleared |-> {},
           invoked |-> FALSE, result |-> Missing]

\* Faulty variant of the expiry test: the window is still open at the
\* expiry timestamp itself.
ExpiredStrict(t, nu) == t > nu

\* timed_cache.py:42: the window has elapsed.
Expired(t, nu) == t >= nu

\* timed_cache.py:41-44: the sweep every call starts with.
Sweep(c, t, nu) ==
    IF Expired(t, nu)
    THEN [cache |-> EmptyCache, next_update |-> t + UpdateDelta, swept |-> TRUE]
    ELSE [cache |-> c, next_update |-> nu, swept |-> FALSE]

\* Faulty variant of the store: what the wrapped function came to is
\* stored whether it failed or not.
StoreAlways(c, k, r) == [c EXCEPT ![k] = r]

\* timed_cache.py:55, 64 and 18-19: the value is stored once the wrapped
\* function, or its coroutine, has produced it; a failure leaves before
\* the store.
Store(c, k, r) == IF r = Failed THEN c ELSE [c EXCEPT ![k] = r]

\* The keys a sweep of c empties.
Cleared(c, swept) == IF swept THEN {k \in Keys : c[k] # Missing} ELSE {}

\* The coroutines and the count after a sweep: what was started before it
\* is no longer of this window.
Stale(pend, swept) ==
    IF swept
    THEN [c \in Coros |-> IF pend[c] = NoCoro THEN NoCoro
                          ELSE [pend[c] EXCEPT !.fresh = FALSE]]
    ELSE pend
Counted(inv, swept) == IF swept THEN [k \in Keys |-> 0] ELSE inv

InitTimedCache ==
    /\ now = 0
    /\ next_update = UpdateDelta
    /\ cache = EmptyCache
    /\ pending = [c \in Coros |-> NoCoro]
    /\ invocations = [k \in Keys |-> 0]
    /\ cache_step = NoStep

\* The clock advances.
Tick ==
    /\ now < MaxTime
    /\ now' = now + 1
    /\ cache_step' = NoStep
    /\ UNCHANGED <<next_update, cache, is_async, pending, invocations>>
    /\ retry.wait_until # NoBudget => now < retry.wait_until
    /\ retry' = Waited(retry)
    /\ UNCHANGED <<awl_vars, supervisor>>

\* timed_cache.py:39-65: a call of the wrapped function with arguments a.
\* After the sweep, a hit returns the stored value; a miss calls f, which
\* for a plain function returns or raises at once, and for a coroutine
\* function hands back a coroutine that stores the value when it is done.
Wrapped(a) ==
    LET k == Key(a)
        sw == Sweep(cache, now, next_update)
        cl == Cleared(cache, sw.swept)
        pend == Stale(pending, sw.swept)
        inv == Counted(invocations, sw.swept)
    IN
    /\ next_update' = sw.next_update
    /\ IF sw.cache[k] # Missing
       THEN /\ cache' = sw.cache
            /\ pending' = pend
            /\ invocations' = inv
            /\ cache_step' = [op |-> "call", key |-> k, swept |-> sw.swept,
                              cleared |-> cl, invoked |-> FALSE,
                              result |-> sw.cache[k]]
       ELSE IF is_async
       THEN \E c \in Coros :
                /\ pend[c] = NoCoro
                /\ \A d \in Coros : d < c => pend[d] # NoCoro
                /\ cache' = sw.cache
                /\ pending' = [pend EXCEPT ![c] = [key |-> k, fresh |-> TRUE]]
                /\ invocations' = [inv EXCEPT ![k] = @ + 1]
                /\ cache_step' = [op |-> "call", key |-> k, swept |-> sw.swept,
                                  cleared |-> cl, invoked |-> TRUE,
                                  result |-> "coroutine"]
       ELSE \E r \in Values \cup {Failed} :
                /\ cache' = Store(sw.cache, k, r)
                /\ pending' = pend
                /\ invocations' = IF r = Failed THEN inv
                                  ELSE [inv EXCEPT ![k] = @ + 1]
                /\ cache_step' = [op |-> "call", key |-> k, swept |-> sw.swept,
                                  cleared |-> cl, invoked |-> TRUE,
                                  result |-> r]
    /\ UNCHANGED <<now, is_async>>
    /\ UNCHANGED <<awl_vars, sup_vars>>

\* timed_cache.py:16-21: the coroutine c of a miss is done: the awaited
\* call of f produced a value, which is stored under the key of the call
\* and returned, or raised.
Wrapper(c) ==
    /\ pending[c] # NoCoro
    /\ \E r \in Values \cup {Failed} :
        /\ cache' = Store(cache, pending[c].key, r)
        /\ invocations' = IF r = Failed /\ pending[c].fresh
                          THEN [invocations EXCEPT ![pending[c].key] = @ - 1]
                          ELSE invocations
        /\ cache_step' = [op |-> "wrapper", key |-> pending[c].key,
                          swept |-> FALSE, cleared |-> {}, invoked |-> FALSE,
                          result |-> r]
    /\ pending' = [pending EXCEPT ![c] = NoCoro]
    /\ UNCHANGED <<now, next_update, is_async>>
    /\ UNCHANGED <<awl_vars, sup_vars>>

----------------------------------------------------------------------------
InitClient ==
    /\ transactions = EmptyTable
    /\ transaction_id = 0
    /\ login_data = <<>>
    /\ websockets_connection = "none"
    /\ futures = [s \in Slots |-> FreeSlot]
    /\ returned = NothingReturned
    /\ receive_task = "none"
    /\ pc = "init"
    /\ task_exc = NoExc
    /\ raised = NoExc
    /\ sent = NoSent
    /\ message = NoMessage
    /\ gateway_rlist = AWL_GATEWAY_RLIST
    /\ websockets_uri = NoUri
    /\ socket_uri = NoUri
    /\ timeout_task = "none"
    /\ session_id = "unset"
    /\ http_logout = "none"
    /\ read_timeout = NoTimeout
    /\ late = {}

\* waterfurnace.py:110: the wrapped function of the service is a coroutine
\* function.
Init ==
    /\ InitClient
    /\ InitTimedCache
    /\ is_async = TRUE
    /\ supervisor = "starting"
    /\ retry = NewRetry(NoBudget, NoBudget)

\* awl.py:223-226: __http_logout_sync sends the request only when the HTTP
\* session holds a session identifier ("unset": there is no HTTP session
\* yet, and the attribute error is the caller's to handle).
HttpLogout(sid) == IF sid = "set" THEN "sent" ELSE "skipped"

\* A step that runs neither the HTTP login nor the HTTP logout.
NoHttp == http_logout' = "none" /\ UNCHANGED session_id

\* What a step that raises nothing at once, and one that writes no frame,
\* leave behind.
NothingRaised == raised' = NoExc /\ message' = NoMessage /\ UNCHANGED gateway_rlist
NothingSent == sent' = NoSent

----------------------------------------------------------------------------
\* External callers.

\* awl.py:464-481, 408-416, 376-406: read() up to the first suspension of
\* _command: the guard, the identifier, the future, the frame written.
Read(awlid, timeout) ==
    LET l == ReadRlist(gateway_rlist, login_data, awlid)
    IN
    /\ read_timeout' = timeout
    /\ returned' = NothingReturned
    /\ message' = NoMessage
    /\ gateway_rlist' = l.shared
    /\ UNCHANGED <<websockets_uri, socket_uri, timeout_task>>
    /\ NoHttp
    /\ IF NotConnected("read", login_data, websockets_connection)
       THEN /\ raised' = Exc("AWLConnectionError",
                             "Call connect() before making requests")
            /\ sent' = NoSent
            /\ UNCHANGED <<transactions, transaction_id, login_data,
                           websockets_connection, futures, receive_task, pc,
                           task_exc>>
       ELSE LET a == NextTransactionId(transactions, futures, transaction_id)
            IN  IF ~a.ok
                THEN /\ raised' = Exc("AWLTransactionError",
                                      "Maximum 255 transactions in progress")
                     /\ sent' = NoSent
                     /\ transaction_id' = a.tid
                     /\ UNCHANGED <<transactions, login_data,
                                    websockets_connection, futures,
                                    receive_task, pc, task_exc>>
                ELSE /\ FreeSlots # {}
                     /\ transaction_id' = a.tid
                     /\ futures' =
                          StartTransaction(futures, NewSlot, "read", a.tid,
                                          ReadTransactionTimeout(
                                              TimeoutArgument(timeout)))
                     /\ transactions' = [transactions EXCEPT ![a.tid] = NewSlot]
                     /\ sent' = CommandFrame("read", a.tid, awlid, l.rlist)
                     /\ raised' = NoExc
                     /\ UNCHANGED <<login_data, websockets_connection,
                                    receive_task, pc, task_exc>>
    /\ SameSocket
    /\ UNCHANGED <<cache_vars, sup_vars>>

\* Faulty variant of the failed send: the reset is done, the error is not
\* raised.
ConnectionClosedSwallowed == NoExc

\* awl.py:403-405: what _command raises when send() fails.
ConnectionClosed == Exc("AWLConnectionError", "Websockets connection closed")

\* awl.py:401-405: send() is still suspended (the frame is not flushed, so
\* no reply to it has come) when the socket closes: it raises
\* ConnectionClosed, the table is reset and the caller gets
\* AWLConnectionError.  When the caller is the session task (the login
\* command) the error ends it.
SendFail(s) ==
    /\ futures[s].fut = "pending"
    /\ websockets_connection = "closed"
    /\ LET r == ResetTransactionId(transactions, futures)
           d == Settle(r.tab, r.fut)
       IN  /\ transactions' = d.tab
           /\ futures' = [d.fut EXCEPT ![HandlerSlot] =
                            IF s = HandlerSlot THEN FreeSlot ELSE @]
           /\ returned' = d.ret
           /\ transaction_id' = r.cur
           /\ login_data' = r.login
    /\ raised' = ConnectionClosed
    /\ message' = NoMessage
    /\ NothingSent
    /\ UNCHANGED <<gateway_rlist, websockets_uri, socket_uri, timeout_task>>
    /\ NoHttp
    /\ IF s = HandlerSlot
       THEN pc' = "ended" /\ task_exc' = ConnectionClosed
       ELSE UNCHANGED <<pc, task_exc>>
    /\ UNCHANGED <<websockets_connection, receive_task>>
    /\ UNCHANGED <<cache_vars, sup_vars>>
    /\ NoReadCall
    /\ SameSocket

\* Faulty variant of the timeout: every pending future is cancelled with
\* the one that timed out.
TimeOutAll(f, s) ==
    [t \in Slots |-> IF f[t].fut = "pending"
                     THEN [f[t] EXCEPT !.fut = "timedout"] ELSE f[t]]

\* awl.py:151-153: wait_for() times out: it cancels the future, which stays
\* in the dict, and the waiter raises AWLTransactionTimeout.
TimeOut(f, s) == [f EXCEPT ![s].fut = "timedout"]

Timeout(s) ==
    /\ futures[s].fut = "pending"
    /\ LET d == Settle(transactions, TimeOut(futures, s))
       IN  /\ transactions' = d.tab
           /\ futures' = d.fut
           /\ returned' = d.ret
    /\ NothingRaised /\ NothingSent
    /\ UNCHANGED <<transaction_id, login_data, websockets_connection,
                   receive_task, pc, task_exc>>
    /\ UNCHANGED <<websockets_uri, socket_uri, timeout_task>>
    /\ NoHttp
    /\ UNCHANGED <<cache_vars, sup_vars>>
    /\ NoReadCall
    /\ late' = IF websockets_connection = "open"
               THEN late \cup {futures[s].tid} ELSE {}

----------------------------------------------------------------------------
\* The server and the receive loop.

\* The server closes the socket, in order ("closed_ok") or not
\* ("closed_err"): the iteration of the receive loop ends or raises.
ServerClose(how) ==
    /\ websockets_connection = "open"
    /\ websockets_connection' = "closed"
    /\ receive_task' = IF receive_task = "running" THEN how ELSE receive_task
    /\ NothingRaised /\ NothingSent
    /\ returned' = NothingReturned
    /\ UNCHANGED <<transactions, transaction_id, login_data, futures, pc,
                   task_exc>>
    /\ UNCHANGED <<websockets_uri, socket_uri, timeout_task>>
    /\ NoHttp
    /\ UNCHANGED <<cache_vars, sup_vars>>
    /\ NoReadCall
    /\ SameSocket

\* awl.py:348-364: what one iteration of the receive loop does with message
\* m: the table and the futures after it, the exception it raises (exc) and
\* whether the loop returns (ret).
HandleMessage(tab, f, m) ==
    IF ~m.json \/ m.tid = NoTid
    THEN [tab |-> tab, fut |-> f, exc |-> NoExc, ret |-> TRUE]
    ELSE IF m.err # ""
    THEN [ret |-> TRUE] @@ AbortTransaction(tab, f, m.tid, m.err)
    ELSE [ret |-> FALSE] @@ CommitTransaction(tab, f, m.tid, m)

\* awl.py:345-364: the server's next frame m arrives and one iteration of
\* the receive loop handles it.  Frames are handled one at a time, in the
\* order the socket yields them: nothing in an iteration suspends.
WebsocketsReceive(m) ==
    /\ receive_task = "running"
    /\ websockets_connection = "open"
    /\ LET r == HandleMessage(transactions, futures, m)
           d == Settle(r.tab, r.fut)
       IN  /\ transactions' = d.tab
           /\ futures' = d.fut
           /\ returned' = d.ret
           /\ receive_task' = IF r.exc # NoExc THEN "raised"
                              ELSE IF r.ret THEN "returned"
                              ELSE "running"
    /\ message' = m
    /\ raised' = NoExc
    /\ NothingSent
    /\ UNCHANGED gateway_rlist
    /\ UNCHANGED <<transaction_id, login_data, websockets_connection, pc,
                   task_exc>>
    /\ UNCHANGED <<websockets_uri, socket_uri, timeout_task>>
    /\ NoHttp
    /\ UNCHANGED <<cache_vars, sup_vars>>
    /\ NoReadCall
    /\ \/ late' = late
       \/ m.json /\ m.tid \in late /\ late' = late \ {m.tid}

----------------------------------------------------------------------------
\* The session task (_websockets_task).

\* waterfurnace.py:80-100: establish_awl_session() after connect() returned
\* or raised, r being the retry loops after the attempt.  After a connect()
\* that returned, the reconnection handler is started.  While the loops
\* sleep before another attempt the supervision is where it was.  An
\* exception the loops gave up on, or do not retry, leaves the function: at
\* the start of the service it fails the start, in the reconnection
\* handler it ends the handler's task.
Established(sup, r) ==
    CASE r.state = "done" -> "waiting"
      [] r.state \in {"waiting_connect", "waiting_login"} -> sup
      [] sup = "starting" -> "not_started"
      [] OTHER -> "dead"

\* awl.py:429-435: connect(): HTTP login, the endpoint, the session task.
Connect ==
    /\ pc = "init"
    /\ supervisor \in {"starting", "establishing"}
    /\ NothingSent
    /\ message' = NoMessage
    /\ UNCHANGED gateway_rlist
    /\ \/ /\ pc' = "renew_close"
          /\ raised' = NoExc
          /\ websockets_uri' = ServerUri
          /\ session_id' = "set"
       \/ /\ raised' \in {Exc("AWLConnectionError", "Could not connect"),
                          Exc("AWLLoginError", "Login failed")}
          /\ session_id' = "none"
          /\ UNCHANGED <<pc, websockets_uri>>
       \/ /\ raised' = Exc("ConnectionError", "")
          /\ session_id' = "set"
          /\ UNCHANGED <<pc, websockets_uri>>
    /\ retry' = Backoff(retry, now, raised')
    /\ supervisor' = Established(supervisor, retry')
    /\ http_logout' = "none"
    /\ UNCHANGED <<socket_uri, timeout_task>>
    /\ UNCHANGED <<transactions, transaction_id, login_data,
                   websockets_connection, futures, returned, receive_task,
                   task_exc>>
    /\ UNCHANGED cache_vars
    /\ NoReadCall
    /\ NewSocket

\* awl.py:302, 291-293
RenewClose ==
    /\ pc = "renew_close"
    /\ pc' = "renew_http"
    /\ websockets_connection' =
         IF websockets_connection = "none" THEN "none" ELSE "closed"
    /\ NothingRaised /\ NothingSent
    /\ returned' = NothingReturned
    /\ UNCHANGED <<transactions, transaction_id, login_data, futures,
                   receive_task, task_exc>>
    /\ UNCHANGED <<websockets_uri, socket_uri, timeout_task>>
    /\ NoHttp
    /\ UNCHANGED <<cache_vars, sup_vars>>
    /\ NoReadCall
    /\ SameSocket

\* awl.py:303-304: HTTP logout then HTTP login; either may fail, which ends
\* the session task.
RenewHttp ==
    /\ pc = "renew_http"
    /\ http_logout' = HttpLogout(session_id)
    /\ \/ /\ pc' = "renew_connect"
          /\ session_id' = "set"
          /\ UNCHANGED task_exc
       \/ /\ pc' = "ended"
          /\ task_exc' \in {Exc("AWLConnectionError", "Could not connect"),
                            Exc("AWLLoginError", "Login failed")}
          /\ session_id' \in {session_id, "none"}
    /\ NothingRaised /\ NothingSent
    /\ returned' = NothingReturned
    /\ UNCHANGED <<transactions, transaction_id, login_data,
                   websockets_connection, futures, receive_task>>
    /\ UNCHANGED <<websockets_uri, socket_uri, timeout_task>>
    /\ UNCHANGED <<cache_vars, sup_vars>>
    /\ NoReadCall
    /\ SameSocket

\* awl.py:268-289, 366-374: the socket is opened, the receive task created,
\* the table reset and the login command sent.  A send() that was suspended
\* on the old socket has failed by now: its waiter is woken when that
\* socket is lost, before the HTTP round trips return.
RenewConnect ==
    /\ pc = "renew_connect"
    /\ \/ /\ pc' = "ended"
          /\ task_exc' = Exc("AWLConnectionError",
                             "Unable to connect to AWL websockets URI")
          /\ UNCHANGED <<transactions, transaction_id, login_data,
                         websockets_connection, futures, returned,
                         receive_task, socket_uri>>
          /\ NothingSent
       \/ LET r == ResetTransactionId(transactions, futures)
              d == Settle(r.tab, r.fut)
              a == NextTransactionId(d.tab, d.fut, r.cur)
          IN  /\ websockets_connection' = "open"
              /\ socket_uri' = RenewUri(websockets_uri)
              /\ receive_task' = "running"
              /\ login_data' = r.login
              /\ returned' = d.ret
              /\ transaction_id' = a.tid
              /\ futures' = StartTransaction(d.fut, HandlerSlot, "login", a.tid,
                                              AWL_DEFAULT_TRANSACTION_TIMEOUT)
              /\ transactions' = [d.tab EXCEPT ![a.tid] = HandlerSlot]
              /\ sent' = CommandFrame("login", a.tid, "", <<>>)
              /\ pc' = "login_wait"
              /\ UNCHANGED task_exc
    /\ NothingRaised
    /\ UNCHANGED <<websockets_uri, timeout_task>>
    /\ NoHttp
    /\ UNCHANGED <<cache_vars, sup_vars>>
    /\ NoReadCall
    /\ NewSocket

\* awl.py:370-374, 313-315: the login transaction is done: its frame becomes
\* the login payload and the renewal timer is started, or its error ends
\* the session task.
LoginDone ==
    /\ pc = "login_wait"
    /\ futures[HandlerSlot].fut \notin {"free", "pending"}
    /\ futures' = [futures EXCEPT ![HandlerSlot] = FreeSlot]
    /\ transactions' = [id \in Ids |->
                          IF transactions[id] = HandlerSlot THEN Tombstone
                          ELSE transactions[id]]
    /\ NothingRaised /\ NothingSent
    /\ returned' = NothingReturned
    /\ IF futures[HandlerSlot].fut = "result"
       THEN /\ login_data' = <<futures[HandlerSlot].result>>
            /\ pc' = IF websockets_connection = "open" THEN "active" ELSE "ended"
            /\ timeout_task' = "pending"
            /\ UNCHANGED task_exc
       ELSE /\ pc' = "ended"
            /\ task_exc' = WaiterOutcome(futures[HandlerSlot])
            /\ UNCHANGED <<login_data, timeout_task>>
    /\ UNCHANGED <<transaction_id, websockets_connection, receive_task>>
    /\ UNCHANGED <<websockets_uri, socket_uri>>
    /\ NoHttp
    /\ UNCHANGED <<cache_vars, sup_vars>>
    /\ NoReadCall
    /\ SameSocket

\* The exception a finished receive task holds.
ReceiveException(t) ==
    CASE t = "raised"     -> Exc("InvalidStateError", "")
      [] t = "closed_err" -> Exc("ConnectionClosedError", "")
      [] OTHER            -> NoExc

\* awl.py:321-337: the renewal timer is done: the receive task is cancelled
\* and awaited, and the session is renewed.
TimerFires ==
    /\ pc = "active"
    /\ timeout_task = "pending"
    /\ timeout_task' = "done"
    /\ UNCHANGED <<websockets_uri, socket_uri>>
    /\ NoHttp
    /\ IF ReceiveException(receive_task) # NoExc
       THEN /\ pc' = "ended"
            /\ task_exc' = ReceiveException(receive_task)
            /\ UNCHANGED receive_task
       ELSE /\ pc' = "renew_close"
            /\ receive_task' =
                 IF receive_task = "running" THEN "cancelled" ELSE receive_task
            /\ UNCHANGED task_exc
    /\ NothingRaised /\ NothingSent
    /\ returned' = NothingReturned
    /\ UNCHANGED <<transactions, transaction_id, login_data,
                   websockets_connection, futures>>
    /\ UNCHANGED <<cache_vars, sup_vars>>
    /\ NoReadCall
    /\ SameSocket

\* awl.py:338-343: the receive task is done: the session task ends with its
\* exception, or returns.
ReceiveDone ==
    /\ pc = "active"
    /\ receive_task \in {"returned", "raised", "closed_ok", "closed_err"}
    /\ pc' = "ended"
    /\ task_exc' = ReceiveException(receive_task)
    /\ NothingRaised /\ NothingSent
    /\ returned' = NothingReturned
    /\ UNCHANGED <<transactions, transaction_id, login_data,
                   websockets_connection, futures, receive_task>>
    /\ UNCHANGED <<websockets_uri, socket_uri, timeout_task>>
    /\ NoHttp
    /\ UNCHANGED <<cache_vars, sup_vars>>
    /\ NoReadCall
    /\ SameSocket

\* Faulty variant of the logout made by close(): its failure is raised.
LogoutRaises(sid) ==
    IF sid = "set"
    THEN {NoExc, Exc("AWLConnectionError", "Could not connect"),
          Exc("AWLLoginError", "Logout failed")}
    ELSE {NoExc}

\* awl.py:440-445: what close() raises after its HTTP logout returned or
\* failed: every exception of the logout is caught.
LogoutSwallowed(sid) == {NoExc}

\* awl.py:437-445, 291-293, 223-241: close(): the socket, if there is one,
\* is closed, which ends the receive loop in order; then the HTTP logout is
\* made, if a session identifier is there, and whether it succeeds or not
\* the server may have expired the identifier.
CloseClient ==
    /\ websockets_connection' =
         IF websockets_connection = "none" THEN "none" ELSE "closed"
    /\ receive_task' =
         IF receive_task = "running" /\ websockets_connection = "open"
         THEN "closed_ok" ELSE receive_task
    /\ http_logout' = HttpLogout(session_id)
    /\ session_id' \in IF session_id = "set" THEN {"set", "none"}
                       ELSE {session_id}
    /\ raised' \in LogoutSwallowed(session_id)

\* Faulty variant of close(): the pending transactions are cancelled and
\* the cursor is reset.
CloseTableCancelled ==
    LET r == ResetTransactionId(transactions, futures)
        d == Settle(r.tab, r.fut)
    IN  /\ transactions' = d.tab
        /\ futures' = d.fut
        /\ returned' = d.ret
        /\ transaction_id' = r.cur

\* awl.py:437-445: close() does not touch the table, the futures or the
\* cursor, and wakes no caller.
CloseTable ==
    /\ returned' = NothingReturned
    /\ UNCHANGED <<transactions, transaction_id, futures>>

\* waterfurnace.py:103-105: close() called from outside the supervision,
\* as the service does when it stops serving.
Close ==
    /\ CloseClient
    /\ CloseTable
    /\ message' = NoMessage
    /\ NothingSent
    /\ UNCHANGED <<login_data, pc, task_exc, gateway_rlist, websockets_uri,
                   socket_uri, timeout_task>>
    /\ UNCHANGED <<cache_vars, sup_vars>>
    /\ NoReadCall
    /\ SameSocket

\* What a call of wait_closed() comes to: it stays suspended, returns, or
\* raises exc.
Suspended == [kind |-> "suspended", exc |-> NoExc]
Returns == [kind |-> "returns", exc |-> NoExc]
Raises(e) == [kind |-> "raises", exc |-> e]

\* Faulty variant of wait_closed(): the exception of the session task is
\* raised as it is.
WaitClosedReraises(p, e) ==
    CASE p = "init"  -> Raises(Exc("TypeError", ""))
      [] p # "ended" -> Suspended
      [] e = NoExc   -> Returns
      [] OTHER       -> Raises(e)

\* awl.py:418-427: wait_closed() awaits the session task: without a task
\* the await itself fails; a task that is running keeps it suspended; a
\* task that returned, or ended on an orderly close, makes it return; one
\* that ended on an unexpected close makes it raise AWLConnectionError; any
\* other exception of the task is raised as it is.
WaitClosed(p, e) ==
    CASE p = "init"  -> Raises(Exc("TypeError", ""))
      [] p # "ended" -> Suspended
      [] e = NoExc   -> Returns
      [] e.type = "ConnectionClosedOK"    -> Returns
      [] e.type = "ConnectionClosedError" -> Raises(Exc("AWLConnectionError", ""))
      [] OTHER       -> Raises(e)

----------------------------------------------------------------------------
\* waterfurnace.py: the supervision of the client.

\* waterfurnace.py:38-51: the try statement around wait_closed(): a return
\* and the two exceptions named fall through to the pause; any other
\* exception leaves the handler, whose task ends with it.
Handled(w) ==
    IF w.kind = "returns" \/ w.exc.type \in {"AWLConnectionError", "AWLLoginError"}
    THEN "pausing" ELSE "dead"

\* waterfurnace.py:37-51: the reconnection handler wakes when wait_closed()
\* returns or raises.  On AWLConnectionError it closes the client.
AwlReconnectionHandler ==
    LET w == WaitClosed(pc, task_exc)
    IN
    /\ supervisor = "waiting"
    /\ w.kind # "suspended"
    /\ supervisor' = Handled(w)
    /\ UNCHANGED retry
    /\ IF w.exc.type = "AWLConnectionError"
       THEN CloseClient
       ELSE /\ raised' = NoExc
            /\ NoHttp
            /\ UNCHANGED <<websockets_connection, receive_task>>
    /\ message' = NoMessage
    /\ NothingSent
    /\ returned' = NothingReturned
    /\ UNCHANGED <<transactions, transaction_id, login_data, futures, pc,
                   task_exc, gateway_rlist, websockets_uri, socket_uri,
                   timeout_task>>
    /\ UNCHANGED cache_vars
    /\ NoReadCall
    /\ SameSocket

\* waterfurnace.py:55-58, 95-98: after the pause the old client is dropped
\* and establish_awl_session() makes a new one.  The reads still pending on
\* the old client end by their own timeouts whatever the new client does;
\* the model lets them end before the variables are given to the new
\* client.
Reestablish ==
    /\ supervisor = "pausing"
    /\ \A s \in CallerSlots : futures[s].fut = "free"
    /\ supervisor' = "establishing"
    /\ retry' = NewRetry(retry.connect_timeout, retry.login_timeout)
    /\ transactions' = EmptyTable
    /\ transaction_id' = 0
    /\ login_data' = <<>>
    /\ websockets_connection' = "none"
    /\ futures' = [s \in Slots |-> FreeSlot]
    /\ returned' = NothingReturned
    /\ receive_task' = "none"
    /\ pc' = "init"
    /\ task_exc' = NoExc
    /\ raised' = NoExc
    /\ sent' = NoSent
    /\ message' = NoMessage
    /\ gateway_rlist' = gateway_rlist
    /\ websockets_uri' = NoUri
    /\ socket_uri' = NoUri
    /\ timeout_task' = "none"
    /\ session_id' = "unset"
    /\ http_logout' = "none"
    /\ UNCHANGED cache_vars
    /\ NoReadCall
    /\ NewSocket

----------------------------------------------------------------------------
Next ==
    \/ \E awlid \in Gwids : Read(awlid, NoTimeout)
    \/ \E s \in Slots : SendFail(s)
    \/ \E s \in Slots : Timeout(s)
    \/ \E how \in {"closed_ok", "closed_err"} : ServerClose(how)
    \/ \E m \in Frames : WebsocketsReceive(m)
    \/ Connect
    \/ RenewClose
    \/ RenewHttp
    \/ RenewConnect
    \/ LoginDone
    \/ TimerFires
    \/ ReceiveDone
    \/ Close
    \/ AwlReconnectionHandler
    \/ Reestablish

Spec == Init /\ [][Next]_vars

----------------------------------------------------------------------------
\* read() on a client that is logged in, for every login payload of the
\* bounds: the state after the login reply carrying payload p was handled.
InitRead ==
    /\ transactions = EmptyTable
    /\ transaction_id = 1
    /\ login_data \in {<<LoginFrame(1, p)>> : p \in Payloads}
    /\ websockets_connection = "open"
    /\ futures = [s \in Slots |-> FreeSlot]
    /\ returned = NothingReturned
    /\ receive_task = "running"
    /\ pc = "active"
    /\ task_exc = NoExc
    /\ raised = NoExc
    /\ sent = NoSent
    /\ message = NoMessage
    /\ gateway_rlist = AWL_GATEWAY_RLIST
    /\ websockets_uri = ServerUri
    /\ socket_uri = ServerUri
    /\ timeout_task = "pending"
    /\ session_id = "set"
    /\ http_logout = "none"
    /\ read_timeout = NoTimeout
    /\ late = {}
    /\ InitTimedCache
    /\ is_async = TRUE
    /\ supervisor = "waiting"
    /\ retry = [NewRetry(NoBudget, NoBudget) EXCEPT !.state = "done"]

NextRead == \E awlid \in Gwids, timeout \in ReadTimeouts : Read(awlid, timeout)

SpecRead == InitRead /\ [][NextRead]_vars

----------------------------------------------------------------------------
\* close() on a client that is logged in, with reads coming, frames
\* arriving and sends failing around it.
InitClose ==
    /\ InitRead
    /\ login_data = <<LoginFrame(1, ServerPayload)>>

NextClose ==
    \/ \E awlid \in Gwids : Read(awlid, NoTimeout)
    \/ \E s \in CallerSlots : SendFail(s)
    \/ \E s \in CallerSlots : Timeout(s)
    \/ \E m \in Frames : WebsocketsReceive(m)
    \/ Close

\* awl.py:149-151: the waiter of every transaction runs wait_for() with a
\* finite timeout, so the timeout of a transaction that stays pending does
\* fire.
SpecClose ==
    /\ InitClose
    /\ [][NextClose]_vars
    /\ \A s \in CallerSlots : WF_vars(Timeout(s))

----------------------------------------------------------------------------
\* The cache alone, around a plain function and around a coroutine function.
InitCache ==
    /\ InitClient
    /\ InitTimedCache
    /\ is_async \in BOOLEAN
    /\ supervisor = "starting"
    /\ retry = NewRetry(NoBudget, NoBudget)

NextCache ==
    \/ Tick
    \/ \E a \in Args : Wrapped(a)
    \/ \E c \in Coros : Wrapper(c)

SpecCache == InitCache /\ [][NextCache]_vars

----------------------------------------------------------------------------
\* establish_awl_session() at the start of the service, for every pair of
\* retry budgets, with time passing between the attempts.
InitEstablish ==
    /\ InitClient
    /\ InitTimedCache
    /\ is_async = TRUE
    /\ supervisor = "starting"
    /\ retry \in {NewRetry(ct, lt) : ct \in Budgets, lt \in Budgets}

NextEstablish ==
    \/ Tick
    \/ Connect

SpecEstablish == InitEstablish /\ [][NextEstablish]_vars

----------------------------------------------------------------------------
\* Properties of the transaction table.

\* The caller in slot s awaits a transaction that is live: registered and
\* not yet done.
Live(s) == futures[s].fut = "pending"

\* A frame that carries an identifier.
HasTid(m) == m # NoMessage /\ m.json /\ m.tid # NoTid

\* The live transaction, if any, that holds identifier tid.
Holder(tid) ==
    IF tid \in Ids /\ transactions[tid] \in Slots /\ Live(transactions[tid])
    THEN transactions[tid] ELSE Absent

Cancelled == Exc("AWLTransactionError", "Transaction cancelled")
TimedOut == Exc("AWLTransactionTimeout", "Transaction timed out")
CapacityError ==
    Exc("AWLTransactionError", "Maximum 255 transactions in progress")

\* C1: no two live transactions hold the same identifier at once, and every
\* live transaction is the table's entry for its identifier: an identifier
\* is handed out again only when its previous holder is done.
C1_LiveIdsUnique ==
    \A s \in Slots :
        Live(s) =>
            /\ futures[s].tid \in Ids
            /\ transactions[futures[s].tid] = s
            /\ \A t \in Slots :
                   (t # s /\ Live(t)) => futures[t].tid # futures[s].tid

\* Two reads are live, one of them under identifier 1, which the login of
\* this session held before it: the identifier was handed out again.
C1_Witness ==
    /\ pc = "active"
    /\ \E s, t \in CallerSlots :
          /\ s # t /\ Live(s) /\ Live(t)
          /\ futures[s].tid = 1

\* Every identifier is held by a live transaction.
TableFull == \A id \in Ids : Holder(id) # Absent

\* C2: when every identifier 1..TidModulus-1 is held by a live transaction,
\* a read() that reaches the allocator fails at once with the capacity
\* error, wherever the cursor stands: no identifier is handed out, no
\* future is registered, no frame is written and no transaction is touched.
C2_FullTableRejects ==
    [][\A awlid \in Gwids :
          (/\ TableFull
           /\ ~NotConnected("read", login_data, websockets_connection)
           /\ Read(awlid, NoTimeout))
          => (/\ raised' = CapacityError
              /\ sent' = NoSent
              /\ transactions' = transactions
              /\ futures' = futures
              /\ returned' = NothingReturned)]_vars

\* The capacity error was raised with the cursor on the last identifier.
C2_Witness ==
    /\ raised = CapacityError
    /\ TableFull
    /\ transaction_id = TidModulus - 1

\* A step that resets the table: a failed send, or the login of a new
\* socket.
ResetStep ==
    \/ \E s \in Slots : SendFail(s)
    \/ (RenewConnect /\ pc' = "login_wait")

\* C3: a reset of the table aborts every live transaction, once, with the
\* cancelled error (what its waiter raises), leaves the table empty, and
\* resets the cursor: the next allocation, which is the login's when the
\* reset is that of a new socket, returns identifier 1.
C3_ResetCancelsAll ==
    [][ResetStep =>
          /\ \A s \in CallerSlots :
                /\ Live(s) =>
                      /\ returned'[s] = [tid |-> futures[s].tid,
                                         exc |-> Cancelled, result |-> NoFrame]
                      /\ futures'[s] = FreeSlot
                /\ ~Live(s) => returned'[s] = NoOutcome
          /\ (Live(HandlerSlot) /\ ~SendFail(HandlerSlot)) =>
                /\ futures'[HandlerSlot].fut = "cancelled"
                /\ WaiterOutcome(futures'[HandlerSlot]) = Cancelled
          /\ IF sent'.cmd = "login"
             THEN /\ sent'.tid = 1
                  /\ transactions' = [EmptyTable EXCEPT ![1] = HandlerSlot]
             ELSE /\ transactions' = EmptyTable
                  /\ NextTransactionId(transactions', futures',
                                       transaction_id')
                       = [ok |-> TRUE, tid |-> 1]]_vars

\* The login of a renewed session went out under identifier 1 and two reads
\* that were live were cancelled by the reset before it.
C3_Witness ==
    /\ sent.cmd = "login" /\ sent.tid = 1
    /\ \E s, t \in CallerSlots :
          /\ s # t
          /\ returned[s].exc = Cancelled
          /\ returned[t].exc = Cancelled

\* C4: a frame whose tid no entry of the table has raises nothing in the
\* receive loop and changes nothing: the table, the cursor and every
\* pending transaction are as before.
C4_UnknownTidIgnored ==
    [][(/\ HasTid(message')
        /\ (message'.tid \notin Ids \/ transactions[message'.tid] = Absent))
       => (/\ receive_task' # "raised"
           /\ transactions' = transactions
           /\ transaction_id' = transaction_id
           /\ futures' = futures
           /\ returned' = NothingReturned)]_vars

\* A reply frame with tid 0, which is never allocated, was handled while a
\* read was pending, and the loop goes on.
C4_Witness ==
    /\ HasTid(message) /\ message.tid = 0 /\ message.err = ""
    /\ receive_task = "running"
    /\ \E s \in CallerSlots : Live(s)

----------------------------------------------------------------------------
\* Properties of the receive loop.

\* C5: a frame that arrives, while the session is active, with the tid of
\* a transaction that has timed out (and, alike, of one that is completed
\* or aborted) is discarded: the receive loop raises nothing, goes on, and
\* no transaction is touched.
C5_LateFrameDiscarded ==
    [][(/\ pc = "active"
        /\ HasTid(message')
        /\ message'.tid \in Ids
        /\ transactions[message'.tid] = Tombstone)
       => (/\ receive_task' = "running"
           /\ futures' = futures
           /\ returned' = NothingReturned)]_vars

\* What the waiter of the transaction in slot s hands back in the next
\* state: the session task reads its own login future, a caller is handed
\* the outcome.
OutcomeNext(s) ==
    IF s = HandlerSlot THEN Outcome(futures'[s]) ELSE returned'[s]

\* C6: a frame whose tid is held by a live transaction resolves it and
\* removes it from the table: with a non-empty err the transaction fails
\* with AWLTransactionError carrying exactly that text, otherwise it is
\* fulfilled with the whole frame.
C6_FrameResolvesHolder ==
    [][\A s \in Slots :
          (HasTid(message') /\ Holder(message'.tid) = s)
          => (/\ transactions'[message'.tid] = Absent
              /\ OutcomeNext(s) =
                   [tid |-> message'.tid,
                    exc |-> IF message'.err # ""
                            THEN Exc("AWLTransactionError", message'.err)
                            ELSE NoExc,
                    result |-> IF message'.err # "" THEN NoFrame
                               ELSE message'])]_vars

\* A read failed with the err text of the frame that carried its tid.
C6_Witness ==
    /\ HasTid(message) /\ message.err = "denied"
    /\ \E s \in CallerSlots :
          /\ returned[s].tid = message.tid
          /\ returned[s].exc = Exc("AWLTransactionError", "denied")

\* C7: with several transactions in flight a reply frame fulfils the live
\* transaction whose identifier is the frame's tid, with the frame as it
\* was parsed, and touches no other; a caller is handed a result only in
\* the step that handles the frame carrying its tid, so callers complete
\* in the order the frames are received and not in the order they asked.
C7_RepliesPairedByTid ==
    [][\A s \in CallerSlots :
          /\ (/\ HasTid(message') /\ message'.err = ""
              /\ Holder(message'.tid) = s)
             => (/\ returned'[s] = [tid |-> futures[s].tid, exc |-> NoExc,
                                    result |-> message']
                 /\ \A t \in Slots \ {s} : futures'[t] = futures[t]
                 /\ \A t \in CallerSlots \ {s} : returned'[t] = NoOutcome)
          /\ returned'[s].result # NoFrame
             => (/\ returned'[s].result = message'
                 /\ message'.tid = returned'[s].tid
                 /\ Holder(message'.tid) = s)]_vars

\* The read that was sent last (the cursor stands on its identifier, 1) got
\* its reply while the read sent before it, under identifier 2, still waits.
C7_Witness ==
    /\ pc = "active"
    /\ transaction_id = 1
    /\ \E s, t \in CallerSlots :
          /\ returned[s].tid = 1
          /\ returned[s].result = message
          /\ message.tid = 1
          /\ Live(t) /\ futures[t].tid = 2

----------------------------------------------------------------------------
\* Properties of read().

\* The positions, location then gateway, of the gateways of the login
\* payload that carry gwid awlid.
Positions(awlid) ==
    IF login_data = <<>> THEN {}
    ELSE LET locs == login_data[1].locations
         IN  {p \in (DOMAIN locs) \X (1..MaxGateways + 1) :
                /\ p[2] \in DOMAIN locs[p[1]]
                /\ locs[p[1]][p[2]].gwid = awlid}

\* The zone count of device awlid: the iz2_max_zones of its first gateway
\* object in the login payload, 0 when there is none or it lacks the field.
DeviceZones(awlid) ==
    LET ps == Positions(awlid)
    IN  IF ps = {} THEN 0
        ELSE LET p == CHOOSE q \in ps :
                        \A r \in ps :
                           q[1] < r[1] \/ (q[1] = r[1] /\ q[2] <= r[2])
                 g == login_data[1].locations[p[1]][p[2]]
             IN  IF g.has_max_zones THEN g.iz2_max_zones ELSE 0

\* C8: the rlist of a read for a device with N zones is the baseline names
\* in their order (never the zone names when N is 0, or when the device or
\* the field is absent) followed, for i = 1..N in increasing order, by
\* iz2_z<i>_roomtemp and iz2_z<i>_activesettings, 2N names more; the shared
\* baseline list is never modified.
C8_ReadRlist ==
    /\ gateway_rlist = AWL_GATEWAY_RLIST
    /\ sent.cmd = "read" =>
          LET n == DeviceZones(sent.awlid)
              base == Len(AWL_GATEWAY_RLIST)
          IN  /\ Len(sent.rlist) = base + 2 * n
              /\ SubSeq(sent.rlist, 1, base) = AWL_GATEWAY_RLIST
              /\ \A i \in 1..n :
                    /\ sent.rlist[base + 2 * i - 1]
                         = "iz2_z" \o ToString(i) \o "_roomtemp"
                    /\ sent.rlist[base + 2 * i]
                         = "iz2_z" \o ToString(i) \o "_activesettings"

\* The second read in a row (it took identifier 1 after the first took 2)
\* asks for a device with MaxZones zones.
C8_Witness ==
    /\ sent.cmd = "read" /\ sent.tid = 1
    /\ DeviceZones(sent.awlid) = MaxZones
    /\ Len(sent.rlist) = Len(AWL_GATEWAY_RLIST) + 2 * MaxZones

----------------------------------------------------------------------------
\* Properties of the timeout.

\* C9: a transaction whose timeout elapses fails with
\* AWLTransactionTimeout, which is neither the error of an err frame nor
\* that of a cancellation, and no other transaction is affected: every
\* other pending transaction stays pending and registered under its
\* identifier, where its own reply still finds it.
C9_TimeoutIsolated ==
    [][\A s \in CallerSlots :
          Timeout(s)
          => (/\ returned'[s] = [tid |-> futures[s].tid, exc |-> TimedOut,
                                 result |-> NoFrame]
              /\ TimedOut.type \notin {Cancelled.type, "AWLConnectionError"}
              /\ \A t \in Slots \ {s} :
                    /\ futures'[t] = futures[t]
                    /\ Live(t) => transactions'[futures[t].tid] = t
              /\ \A t \in CallerSlots \ {s} : returned'[t] = NoOutcome)]_vars

\* A read timed out while another read is pending and the receive loop
\* runs.
C9_Witness ==
    /\ receive_task = "running"
    /\ \E s, t \in CallerSlots :
          /\ returned[s].exc = TimedOut
          /\ Live(t)

----------------------------------------------------------------------------
\* Properties of the renewal.

\* The session task is renewing the session of a socket it had, or has
\* failed doing so: the renewal timer fired, the receive task is cancelled
\* and the login of the new socket is not sent yet.
Renewing ==
    /\ websockets_connection # "none"
    /\ \/ pc \in {"renew_close", "renew_http", "renew_connect"}
       \/ (pc = "ended" /\ receive_task = "cancelled")

\* C10 as stated: a transaction that is in flight when the renewal timer
\* fires resolves to the cancelled error or to a connection error.
C10_RenewalAbortsInFlight ==
    [][Renewing =>
          \A s \in CallerSlots :
             returned'[s] # NoOutcome
             => returned'[s].exc \in {Cancelled, ConnectionClosed}]_vars

\* C10, amended: a transaction that is in flight when the renewal timer
\* fires never gets data after it: it is cancelled by the reset that
\* precedes the login of the new socket, or its sender gets the connection
\* error, or its own timeout elapses first (as it must when the renewal
\* fails).  When the login of the new socket is sent no earlier transaction
\* is pending, and the login carries identifier 1, the first after the
\* reset.
C10_RenewalResolvesInFlight ==
    [][Renewing =>
          /\ \A s \in CallerSlots :
                returned'[s] # NoOutcome
                => (/\ returned'[s].result = NoFrame
                    /\ returned'[s].exc \in {Cancelled, TimedOut})
          /\ raised' \in {NoExc, ConnectionClosed,
                          Exc("AWLConnectionError",
                              "Call connect() before making requests"),
                          CapacityError}
          /\ pc' = "login_wait"
             => (/\ sent' = CommandFrame("login", 1, "", <<>>)
                 /\ transactions' = [EmptyTable EXCEPT ![1] = HandlerSlot]
                 /\ \A s \in CallerSlots :
                       /\ futures'[s] = FreeSlot
                       /\ Live(s) => returned'[s].exc = Cancelled)]_vars

\* The login of the renewed session was sent under identifier 1 although
\* the cursor of the old session stood elsewhere, and a read that was in
\* flight was cancelled.
C10_Witness ==
    /\ pc = "login_wait"
    /\ sent = CommandFrame("login", 1, "", <<>>)
    /\ \E s \in CallerSlots :
          /\ returned[s].exc = Cancelled
          /\ returned[s].tid = TidModulus - 1

\* The session task ended: wait_closed() has something to return or raise.
SessionEnded == pc = "ended"

\* C11: when the renewal timer fires first and the cycle of logout, login
\* and reconnect succeeds, the session task does not end.  The timer's step
\* leaves the old receive loop cancelled; the step that opens the new
\* socket opens it to the same endpoint as the old one and starts the one
\* receive loop that runs, no other being left; once the login reply is
\* in, a fresh timer is pending in place of the one that fired; and all
\* along wait_closed() has nothing to return or raise.
C11_RenewalKeepsSession ==
    [][/\ (pc = "active" /\ pc' = "renew_close")
          => (/\ receive_task' # "running"
              /\ timeout_task' = "done"
              /\ task_exc' = NoExc)
       /\ (Renewing /\ pc' = "login_wait")
          => (/\ receive_task # "running"
              /\ receive_task' = "running"
              /\ websockets_connection' = "open"
              /\ socket_uri' = websockets_uri
              /\ socket_uri' = socket_uri
              /\ timeout_task' = "done"
              /\ task_exc' = NoExc)
       /\ (/\ pc = "login_wait"
           /\ timeout_task = "done"
           /\ futures[HandlerSlot].fut = "result"
           /\ websockets_connection = "open"
           /\ pc' # pc)
          => (/\ pc' = "active"
              /\ ~SessionEnded'
              /\ timeout_task' = "pending"
              /\ receive_task' = receive_task
              /\ socket_uri' = websockets_uri
              /\ task_exc' = NoExc)]_vars

\* A renewal has gone through: the timer that fired is done, the new socket
\* is open to the endpoint of the old one, the new receive loop runs and
\* has handled the login reply.
C11_Witness ==
    /\ pc = "login_wait"
    /\ timeout_task = "done"
    /\ futures[HandlerSlot].fut = "result"
    /\ websockets_connection = "open"
    /\ receive_task = "running"
    /\ socket_uri = ServerUri

----------------------------------------------------------------------------
\* Properties of connect(), of the command guard and of the send.

\* C12: when connect() returns without error the socket is open, the login
\* transaction is completed and the login payload is set, so that a read()
\* issued at once is not rejected by the guard; and a failure of the
\* handshake or of the login command is raised by connect(), not left in
\* the session task.
C12_ConnectLogsIn ==
    [][/\ (pc = "init" /\ pc' # "init" /\ raised' = NoExc)
          => (/\ websockets_connection' = "open"
              /\ login_data' # <<>>
              /\ ~NotConnected("read", login_data', websockets_connection'))
       /\ task_exc'.msg # "Unable to connect to AWL websockets URI"]_vars

\* C13: a command is rejected with the not-connected error, a kind of its
\* own and not the connection error, whenever the socket is absent or not
\* open or, the command not being login, no login payload is set; the
\* rejected command takes no identifier, registers no transaction, writes
\* no frame and leaves the cursor where it is.
C13_RejectedAsNotConnected ==
    [][\A awlid \in Gwids :
          (/\ NotConnected("read", login_data, websockets_connection)
           /\ Read(awlid, NoTimeout))
          => (/\ raised'.type = "AWLNotConnectedError"
              /\ raised'.type # "AWLConnectionError"
              /\ sent' = NoSent
              /\ transactions' = transactions
              /\ transaction_id' = transaction_id
              /\ futures' = futures)]_vars

\* C14: when the send of a command's frame fails because the connection is
\* closed, the whole table is reset: every live transaction, the one just
\* registered for this command among them, is cancelled, the table is
\* empty and the cursor is back at its initial value; and the caller of the
\* command gets AWLConnectionError (the session task ends with it when the
\* command is its login).
C14_SendFailResets ==
    [][\A s \in Slots :
          SendFail(s)
          => (/\ raised' = Exc("AWLConnectionError",
                               "Websockets connection closed")
              /\ transactions' = EmptyTable
              /\ transaction_id' = 0
              /\ \A t \in CallerSlots :
                    /\ futures'[t] = FreeSlot
                    /\ Live(t) => returned'[t].exc = Cancelled
              /\ futures'[HandlerSlot].fut # "pending"
              /\ s = HandlerSlot
                 => (pc' = "ended" /\ task_exc'.type = "AWLConnectionError"))]_vars

\* A send failed on the closed socket while the session was active: its
\* caller got the connection error, and its transaction and another live
\* one were cancelled by the reset.
C14_Witness ==
    /\ raised = Exc("AWLConnectionError", "Websockets connection closed")
    /\ transactions = EmptyTable /\ transaction_id = 0
    /\ pc = "active"
    /\ \E s, t \in CallerSlots :
          /\ s # t
          /\ returned[s].exc = Cancelled
          /\ returned[t].exc = Cancelled

----------------------------------------------------------------------------
\* Properties of close() and wait_closed().

\* The client is closed already: it has no open socket.
AlreadyClosed == websockets_connection # "open"

\* C15: close() can be called in every state of the client (never
\* connected, connected, renewing, failed, closed) and returns normally:
\* it raises nothing, whatever becomes of the HTTP logout; the logout
\* request is sent when a session identifier is present and skipped when
\* none is; and on a client that is closed already close() changes nothing
\* of the client: the socket, the receive task, the session task, the
\* table and the login payload stay as they are.
C15_CloseAlwaysReturns ==
    [][/\ ENABLED Close
       /\ Close
          => (/\ raised' = NoExc
              /\ http_logout' = IF session_id = "set" THEN "sent"
                                ELSE "skipped"
              /\ pc' = pc /\ task_exc' = task_exc
              /\ AlreadyClosed
                 => (/\ websockets_connection' = websockets_connection
                     /\ receive_task' = receive_task
                     /\ transactions' = transactions
                     /\ transaction_id' = transaction_id
                     /\ futures' = futures
                     /\ login_data' = login_data))]_vars

\* close() was called on a client whose session task has ended, whose
\* socket is closed and whose session identifier is gone, as they are after
\* a first close(): it returned normally and skipped the logout.
C15_Witness ==
    /\ http_logout = "skipped"
    /\ raised = NoExc
    /\ pc = "ended"
    /\ websockets_connection = "closed"
    /\ session_id = "none"

----------------------------------------------------------------------------
\* timed_cache.py

\* C17: within one window (no sweep in between), the wrapped function is
\* called at most once for the same arguments, overlapping calls of a
\* coroutine function included: for every key, at most one call of the
\* wrapped function made since the last sweep has not failed.
C17_OneInvocationPerWindow ==
    \A k \in Keys : invocations[k] <= 1

\* C18: a call made at or after the expiry timestamp empties the whole
\* cache, whatever the keys and whenever they were stored, sets the expiry
\* one window after the time of the call and calls the wrapped function for
\* its own arguments.  A call made before the expiry timestamp removes no
\* entry and leaves the expiry where it is, and so does a coroutine of the
\* wrapped function that completes.
C18_GlobalSweep ==
    [][/\ (cache_step'.op = "call" /\ now >= next_update)
          => (/\ cache_step'.swept
              /\ cache_step'.cleared = {k \in Keys : cache[k] # Missing}
              /\ next_update' = now + UpdateDelta
              /\ cache_step'.invoked
              /\ \A k \in Keys :
                    cache'[k] # Missing
                        => k = cache_step'.key /\ cache'[k] = cache_step'.result)
       /\ (cache_step'.op = "call" /\ now < next_update)
          => (/\ ~cache_step'.swept
              /\ next_update' = next_update
              /\ \A k \in Keys : cache[k] # Missing => cache'[k] = cache[k])
       /\ cache_step'.op = "wrapper"
          => (/\ next_update' = next_update
              /\ \A k \in Keys :
                    k # cache_step'.key => cache'[k] = cache[k])]_vars

\* A call at the expiry timestamp itself has swept away an entry stored for
\* other arguments and has called the wrapped function.
C18_Witness ==
    /\ cache_step.op = "call"
    /\ cache_step.swept
    /\ cache_step.invoked
    /\ next_update = now + UpdateDelta
    /\ now = UpdateDelta
    /\ \E k \in cache_step.cleared : k # cache_step.key

\* C19: when the wrapped function fails on a miss, at once or when its
\* coroutine is awaited, the caller gets the failure and the failure stores
\* nothing: the cache is as the sweep check of the call left it (a
\* coroutine that fails changes nothing at all), the key of a plain
\* function that failed is still missing, and a call with the same
\* arguments that follows and still finds no entry calls the wrapped
\* function again.
C19_FailureNotCached ==
    [][/\ (cache_step'.op = "call" /\ cache_step'.result = Failed)
          => (/\ cache_step'.invoked
              /\ cache' = IF now >= next_update THEN EmptyCache ELSE cache
              /\ cache'[cache_step'.key] = Missing)
       /\ (cache_step'.op = "wrapper" /\ cache_step'.result = Failed)
          => cache' = cache
       /\ (/\ cache_step.result = Failed
           /\ cache_step'.op = "call"
           /\ cache_step'.key = cache_step.key
           /\ cache[cache_step.key] = Missing)
          => cache_step'.invoked
       /\ \A k \in Keys : cache'[k] # Failed]_vars

\* The coroutine of a miss has failed while an entry for other arguments
\* was stored; that entry is still there and the key of the failed call
\* has none.
C19_Witness ==
    /\ cache_step.op = "wrapper"
    /\ cache_step.result = Failed
    /\ cache[cache_step.key] = Missing
    /\ \E k \in Keys : k # cache_step.key /\ cache[k] \in Values

----------------------------------------------------------------------------
\* waterfurnace.py: the supervision

\* C20: whatever wait_closed() returns or raises when the session task of
\* the current client has ended, the supervision goes on to the pause and
\* a new establish-and-retry cycle: the task of the reconnection handler
\* never ends without having started the next cycle.
C20_SupervisorNeverStops ==
    pc = "ended" => supervisor # "dead"

\* C21: the two retry budgets are independent: establish_awl_session()
\* gives up on a connection failure only when the time spent retrying
\* connection failures has reached the connection budget, and on a login
\* failure only when the time spent retrying login failures has reached
\* the login budget; with no budget set it never gives up.
C21_IndependentBudgets ==
    /\ retry.state = "gave_up_connect"
          => (/\ retry.connect_timeout # NoBudget
              /\ retry.connect_waited >= retry.connect_timeout)
    /\ retry.state = "gave_up_login"
          => (/\ retry.login_timeout # NoBudget
              /\ retry.login_waited >= retry.login_timeout)

----------------------------------------------------------------------------
\* The login payload

\* C22: once a login payload has been set, the login_data accessor never
\* returns an empty payload during a renewal: while the login command of a
\* renewal (one that follows a timer started by a completed login) is
\* awaited, the payload is the previous one.
C22_PayloadNeverEmpty ==
    (pc = "login_wait" /\ timeout_task = "done") => login_data # <<>>

----------------------------------------------------------------------------
\* The receive loop

\* C23: the receive loop goes on after a frame without a tid and after a
\* frame whose non-empty err aborts the live transaction holding its tid:
\* once such a frame is handled the loop is still running, ready for the
\* frames that follow.
C23_LoopGoesOn ==
    [][(/\ message' # NoMessage
        /\ message'.json
        /\ \/ message'.tid = NoTid
           \/ (message'.err # "" /\ Holder(message'.tid) # Absent))
       => receive_task' = "running"]_vars

----------------------------------------------------------------------------
\* The send path

\* C24: when a command frame is written to the socket, the table already
\* holds a pending future under the identifier of the frame; and a reply
\* with that identifier that is the very next thing to happen after the
\* send finds that future and completes the transaction with the frame.
C24_SlotBeforeSend ==
    [][/\ sent' # NoSent
          => (/\ sent'.tid \in Ids
              /\ transactions'[sent'.tid] \in Slots
              /\ futures'[transactions'[sent'.tid]].fut = "pending"
              /\ futures'[transactions'[sent'.tid]].tid = sent'.tid)
       /\ (/\ sent # NoSent
           /\ HasTid(message')
           /\ message'.tid = sent.tid
           /\ message'.err = "")
          => (/\ Holder(sent.tid) # Absent
              /\ OutcomeNext(Holder(sent.tid)) =
                   [tid |-> sent.tid, exc |-> NoExc, result |-> message']
              /\ transactions'[sent.tid] = Absent)]_vars

\* A read frame has just been written and its future is pending under the
\* identifier the frame carries.
C24_Witness ==
    /\ sent.cmd = "read"
    /\ Holder(sent.tid) \in CallerSlots
    /\ futures[Holder(sent.tid)].cmd = "read"
    /\ transaction_id = sent.tid

----------------------------------------------------------------------------
\* close() and the table

\* C25: close() leaves the table as it is: no future is resolved, no entry
\* removed, the cursor stays, no caller is woken.  A read that is pending
\* while the socket is closed ends by its timeout or by the cancellation of
\* a later reset, and it does end.
C25_CloseKeepsTable ==
    /\ [][(ENABLED Close /\ Close)
            => (/\ transactions' = transactions
                /\ transaction_id' = transaction_id
                /\ futures' = futures
                /\ returned' = NothingReturned)]_vars
    /\ [][\A s \in CallerSlots :
            (Live(s) /\ websockets_connection = "closed" /\ ~Live(s)')
            => returned'[s].exc \in {TimedOut, Cancelled}]_vars
    /\ \A s \in CallerSlots :
          (Live(s) /\ websockets_connection = "closed") ~> ~Live(s)

\* close() has just been called on a connected client with a read pending:
\* the socket is closed, the receive loop has ended in order and the read
\* is still pending under its identifier.
C25_Witness ==
    /\ http_logout # "none"
    /\ pc = "active"
    /\ websockets_connection = "closed"
    /\ receive_task = "closed_ok"
    /\ \E s \in CallerSlots : Live(s) /\ transactions[futures[s].tid] = s

----------------------------------------------------------------------------
\* The replacement of the client

\* C26: when the reconnection handler has gone on to the pause after which
\* it replaces the client, the old client has been torn down: its socket
\* is not open any more.
C26_OldClientTornDown ==
    supervisor = "pausing" => websockets_connection # "open"

----------------------------------------------------------------------------
\* The timeout of a read

\* C27: the transaction a read() starts is bounded by the timeout the
\* caller gave read(), and by the default only when the caller gave none.
C27_ReadTimeoutApplies ==
    \A s \in CallerSlots :
        (sent.cmd = "read" /\ Holder(sent.tid) = s)
        => futures[s].timeout = TimeoutArgument(read_timeout)

----------------------------------------------------------------------------
\* The allocator

\* The identifiers no live transaction holds: free, or held by a
\* transaction that is done.
EligibleIds == {id \in Ids : Holder(id) = Absent}

\* How far identifier id is after cursor cur in the cyclic order
\* 1..TidModulus-1; the identifier the cursor stands on comes last.
Dist(cur, id) == IF id > cur THEN id - cur ELSE id - cur + (TidModulus - 1)

\* C28: the capacity error is raised only when every identifier is held by
\* a live transaction.  Wherever the cursor stands, a read() that reaches
\* the allocator while some identifier is free or held by a finished
\* transaction is given the first such identifier after the cursor in
\* cyclic order, which is never 0, and its frame carries it.  With the
\* cursor at 0, where a reset leaves it, no identifier is held, and the
\* login that follows a reset is given identifier 1.
C28_AllocatesWhenNotFull ==
    [][/\ transaction_id = 0 => EligibleIds = Ids
       /\ sent'.cmd = "login"
          => (/\ sent'.tid = 1
              /\ transaction_id' = 1
              /\ raised' # CapacityError)
       /\ \A awlid \in Gwids :
          (/\ ~NotConnected("read", login_data, websockets_connection)
           /\ Read(awlid, NoTimeout))
          => (/\ raised' = CapacityError => TableFull
              /\ EligibleIds # {}
                 => (/\ raised' = NoExc
                     /\ sent'.cmd = "read"
                     /\ sent'.tid \in EligibleIds
                     /\ sent'.tid # 0
                     /\ \A id \in EligibleIds :
                           Dist(transaction_id, sent'.tid)
                               <= Dist(transaction_id, id)
                     /\ transaction_id' = sent'.tid))]_vars

\* A read has been given an identifier below one that a live transaction
\* holds: the scan wrapped round past the end of the range.
C28_Witness ==
    /\ sent.cmd = "read"
    /\ raised = NoExc
    /\ transaction_id = sent.tid
    /\ Holder(sent.tid) # Absent
    /\ \E id \in Ids : id > sent.tid /\ Holder(id) # Absent

----------------------------------------------------------------------------
\* The login payload across a reset

\* awl.py:379-384: what _command raises when the client is not logged in.
Rejected == Exc("AWLConnectionError", "Call connect() before making requests")

\* C29: every reset of the table, the one a login starts with and the one
\* that follows a send on a closed socket, leaves the login payload empty;
\* while the payload is empty a read() is rejected and changes nothing, no
\* read frame is transmitted, and the payload is only set again by the
\* completion of a login transaction, to the frame that completed it.
C29_ResetClearsLogin ==
    [][/\ (raised' = ConnectionClosed \/ sent'.cmd = "login")
          => login_data' = <<>>
       /\ sent'.cmd = "read" => (login_data # <<>> /\ login_data' # <<>>)
       /\ \A awlid \in Gwids :
             (login_data = <<>> /\ Read(awlid, NoTimeout))
             => (/\ raised' = Rejected
                 /\ sent' = NoSent
                 /\ UNCHANGED <<transactions, transaction_id, futures,
                                login_data>>)
       /\ (login_data = <<>> /\ login_data' # <<>>)
          => (/\ pc = "login_wait"
              /\ futures[HandlerSlot].fut = "result"
              /\ login_data' = <<futures[HandlerSlot].result>>)]_vars

\* A renewal has logged in again on an open socket, its reset has cleared
\* the payload of the previous login, and a read() made before the new
\* login completed has been rejected.
C29_Witness ==
    /\ pc = "login_wait"
    /\ timeout_task = "done"
    /\ websockets_connection = "open"
    /\ login_data = <<>>
    /\ raised = Rejected
    /\ sent = NoSent

----------------------------------------------------------------------------
\* Coroutines across a sweep

\* C30: with a coroutine function wrapped, every entry of the cache comes
\* from an invocation that started after the most recent sweep: when a
\* coroutine that was started before a sweep is done after it, its value is
\* not stored and the cache stays as the sweep left it.
C30_StaleValueNotStored ==
    [][\A c \in Coros :
          (/\ pending[c] # NoCoro
           /\ ~pending[c].fresh
           /\ pending'[c] = NoCoro)
          => cache' = cache]_vars

----------------------------------------------------------------------------
\* Replies that come late

\* C31: a pending transaction is only completed by the reply to its own
\* request: when the frame that arrives is the reply the server owed to an
\* earlier request with the same identifier, one that timed out and whose
\* identifier was given out again, the transaction that holds the
\* identifier now stays pending.
C31_OnlyOwnReply ==
    [][\A id \in late :
          (id \notin late' /\ message'.json /\ message'.tid = id)
          => \A s \in Slots :
                (Live(s) /\ futures[s].tid = id) => futures'[s] = futures[s]]_vars

====
